---- MODULE Spec2Model ----
(***************************************************************************)
(* FinAgent: the agent orchestration graph (backend/agent) as a state      *)
(* machine.  One behaviour is one run of the compiled LangGraph workflow   *)
(* on a fresh AgentState, as started by the chat endpoints.                *)
(*                                                                         *)
(* Text.  A Python str is modelled as a finite sequence of lexemes (a      *)
(* lexeme is an indivisible piece of text, written as a TLA+ string).      *)
(* Concatenating strs is concatenating sequences; str.strip, str.lower and *)
(* json.loads are computed on the lexemes.                                 *)
(*                                                                         *)
(* Python values.  A value is a record [type, text, num, items, pairs]:    *)
(* text for a str, num for an int, items for a list, pairs (a set of       *)
(* <<key, value>>) for a dict.                                             *)
(***************************************************************************)
EXTENDS Integers, Sequences, FiniteSets, TLC

VARIABLES
  state,        \* the AgentState channels of the run
  pc,           \* the node the graph runs next; "END" or "raised" when the run is over
  error,        \* the exception that ended the run, "" when none
  calls,        \* history: how many times each node was entered
  executed,     \* history: the nodes that returned, in order
  invocations,  \* history: the tool_results entries the nodes produced, in order
  llm_response, \* history: the content of the last reasoning-client response
  tool_calls,   \* history: the tool invocations made, [tool, args, backend], in order
  mode,         \* how the run driver runs the graph: "invoke" or "astream"
  event,        \* astream: the node output yielded and not yet consumed, <<>> when none
  final_answer, \* chat_websocket: its local final_answer
  sent,         \* what the run driver has delivered to the caller, in order
  driver,       \* "running" until the run driver has delivered its final response
  runs,         \* concurrent requests: the graph run of each, with the responses it got
  sql_generated, \* sql_query: the text the model generated, <<>> before the call
  sql_submitted, \* sql_query: the texts passed to session.execute, in order
  sql_ran,       \* sql_query: the statements the database executed, in order
  sql_reply,     \* sql_query: the kind of string the tool returned, "" before the call
  interaction_count, \* the user's row: interaction_count as committed in the database
  user_documents,    \* the processing_status values found among the user's documents
  requests,          \* the requests of the user being handled, each with its locals
  admitted,          \* history: the interactions admitted past the interaction check
  document_tasks,    \* process_document: the documents rows and the task of each
  chunker,           \* chunk_document: the text and the locals of the call
  users,             \* the users rows
  auth_requests      \* the signup, login and verify-email requests being handled

\* the variables of one graph run and its driver
agentVars ==
  << state, pc, error, calls, executed, invocations, llm_response, tool_calls,
     mode, event, final_answer, sent, driver >>

\* the variables of the other parts of the backend, which a graph run leaves alone
runVars == << runs >>
sqlVars == << sql_generated, sql_submitted, sql_ran, sql_reply >>
requestVars == << interaction_count, user_documents, requests, admitted >>
processingVars == << document_tasks >>
chunkerVars == << chunker >>
authVars == << users, auth_requests >>
backendVars == << runVars, sqlVars, requestVars, processingVars, chunkerVars, authVars >>

\* what the actions of each part leave alone
exceptRuns == << agentVars, sqlVars, requestVars, processingVars, chunkerVars, authVars >>
exceptSql == << agentVars, runVars, requestVars, processingVars, chunkerVars, authVars >>
exceptRequests == << agentVars, runVars, sqlVars, processingVars, chunkerVars, authVars >>
exceptProcessing == << agentVars, runVars, sqlVars, requestVars, chunkerVars, authVars >>
exceptChunker == << agentVars, runVars, sqlVars, requestVars, processingVars, authVars >>
exceptAuth == << agentVars, runVars, sqlVars, requestVars, processingVars, chunkerVars >>

vars == << agentVars, backendVars >>

(***************************************************************************)
(* Bounds of the model.                                                    *)
(***************************************************************************)
MaxPlanLen == 2        \* longest JSON array the planner stub returns
MaxClassifierLen == 3  \* longest classifier response, in lexemes
MaxTextLen == 3        \* longest non-JSON planner response, in lexemes

(***************************************************************************)
(* Python values.                                                          *)
(***************************************************************************)
PyNone == [type |-> "NoneType", text |-> <<>>, num |-> 0, items |-> <<>>, pairs |-> {}]
PyStr(s) == [type |-> "str", text |-> s, num |-> 0, items |-> <<>>, pairs |-> {}]
PyInt(n) == [type |-> "int", text |-> <<>>, num |-> n, items |-> <<>>, pairs |-> {}]
PyList(xs) == [type |-> "list", text |-> <<>>, num |-> 0, items |-> xs, pairs |-> {}]
PyDict(ps) == [type |-> "dict", text |-> <<>>, num |-> 0, items |-> <<>>, pairs |-> ps]
\* the marker of a key that a dict does not hold
Absent == [type |-> "absent", text |-> <<>>, num |-> 0, items |-> <<>>, pairs |-> {}]

\* dict.keys()
Keys(d) == {p[1] : p \in d.pairs}

\* dict.get(key, default)
DictGet(d, key, default) ==
  IF key \in Keys(d) THEN (CHOOSE p \in d.pairs : p[1] = key)[2] ELSE default

\* lists and dicts are unhashable: using one as a dict key raises TypeError
Hashable(v) == v.type \notin {"list", "dict"}

(***************************************************************************)
(* str methods.                                                            *)
(***************************************************************************)
Whitespace == {" ", "\n"}

RECURSIVE lstrip_ws(_)
lstrip_ws(s) ==
  IF s # <<>> /\ Head(s) \in Whitespace THEN lstrip_ws(Tail(s)) ELSE s

RECURSIVE rstrip_ws(_)
rstrip_ws(s) ==
  IF s # <<>> /\ s[Len(s)] \in Whitespace
  THEN rstrip_ws(SubSeq(s, 1, Len(s) - 1))
  ELSE s

\* str.strip()
strip(s) == rstrip_ws(lstrip_ws(s))

\* the lower-case form of one lexeme
LowerLexeme(t) ==
  CASE t \in {"SIMPLE", "Simple"} -> "simple"
    [] t \in {"COMPLEX", "Complex"} -> "complex"
    [] OTHER -> t

\* str.lower()
lower(s) == [i \in 1..Len(s) |-> LowerLexeme(s[i])]

(***************************************************************************)
(* json.loads on lexemes.  Punctuation lexemes are [ ] { } , : and each    *)
(* JSON literal (a string, a number, null, a nested array or object) is    *)
(* one lexeme whose value JsonLiteral gives.                               *)
(***************************************************************************)
JsonLiteral ==
  [ x \in { "\"tool\"", "\"args\"", "\"find invoices\"", "\"sum totals\"",
            "\"vector_search\"", "\"calculate\"", "\"nonexistent\"",
            "7", "null", "[]", "{}",
            "{\"query\": \"invoices\"}", "{\"expression\": \"1+1\"}",
            "\"sql_query\"", "{\"question\": \"totals\"}" } |->
      CASE x = "\"tool\"" -> PyStr(<<"tool">>)
        [] x = "\"args\"" -> PyStr(<<"args">>)
        [] x = "\"find invoices\"" -> PyStr(<<"find invoices">>)
        [] x = "\"sum totals\"" -> PyStr(<<"sum totals">>)
        [] x = "\"vector_search\"" -> PyStr(<<"vector_search">>)
        [] x = "\"calculate\"" -> PyStr(<<"calculate">>)
        [] x = "\"nonexistent\"" -> PyStr(<<"nonexistent">>)
        [] x = "\"sql_query\"" -> PyStr(<<"sql_query">>)
        [] x = "{\"question\": \"totals\"}" ->
             PyDict({<<"question", PyStr(<<"totals">>)>>})
        [] x = "7" -> PyInt(7)
        [] x = "null" -> PyNone
        [] x = "[]" -> PyList(<<>>)
        [] x = "{}" -> PyDict({})
        [] x = "{\"query\": \"invoices\"}" ->
             PyDict({<<"query", PyStr(<<"invoices">>)>>})
        [] x = "{\"expression\": \"1+1\"}" ->
             PyDict({<<"expression", PyStr(<<"1+1">>)>>}) ]

IsLiteral(t) == t \in DOMAIN JsonLiteral
IsStringLiteral(t) == IsLiteral(t) /\ JsonLiteral[t].type = "str"

\* the lexemes of s that are not whitespace (JSON ignores whitespace between tokens)
JsonTokens(s) == SelectSeq(s, LAMBDA t : t \notin Whitespace)

\* value (, value)*  or nothing
IsElementList(ts) ==
  \/ ts = <<>>
  \/ /\ Len(ts) % 2 = 1
     /\ \A i \in 1..Len(ts) :
          IF i % 2 = 1 THEN IsLiteral(ts[i]) ELSE ts[i] = ","

\* string : value (, string : value)*  or nothing
IsMemberList(ts) ==
  \/ ts = <<>>
  \/ /\ Len(ts) % 4 = 3
     /\ \A i \in 1..Len(ts) :
          CASE i % 4 = 1 -> IsStringLiteral(ts[i])
            [] i % 4 = 2 -> ts[i] = ":"
            [] i % 4 = 3 -> IsLiteral(ts[i])
            [] OTHER -> ts[i] = ","

\* the dict of a member list; a repeated key keeps its last value
MemberPairs(ts) ==
  LET n == (Len(ts) + 1) \div 4
      key(j) == JsonLiteral[ts[4 * j - 3]].text[1]
      last(j) == \A k \in (j + 1)..n : key(k) # key(j)
  IN {<<key(j), JsonLiteral[ts[4 * j - 1]]>> : j \in {i \in 1..n : last(i)}}

Inner(ts) == SubSeq(ts, 2, Len(ts) - 1)

\* json.loads raises JSONDecodeError
JsonInvalid(s) ==
  LET ts == JsonTokens(s) IN
  ~ \/ Len(ts) = 1 /\ IsLiteral(ts[1])
    \/ Len(ts) >= 2 /\ ts[1] = "[" /\ ts[Len(ts)] = "]" /\ IsElementList(Inner(ts))
    \/ Len(ts) >= 2 /\ ts[1] = "{" /\ ts[Len(ts)] = "}" /\ IsMemberList(Inner(ts))

\* json.loads(s), for s with ~JsonInvalid(s)
JsonLoads(s) ==
  LET ts == JsonTokens(s)
      in == Inner(ts)
  IN CASE Len(ts) = 1 -> JsonLiteral[ts[1]]
       [] Len(ts) >= 2 /\ ts[1] = "[" ->
            PyList([i \in 1..((Len(in) + 1) \div 2) |-> JsonLiteral[in[2 * i - 1]]])
       [] OTHER -> PyDict(MemberPairs(in))

(***************************************************************************)
(* The tool registry (backend/agent/tools.py).                             *)
(***************************************************************************)
ALL_TOOLS ==
  << "vector_search", "sql_query", "calculate", "compare_documents",
     "generate_report", "export_data", "flag_discrepancy" >>

ToolNames == {ALL_TOOLS[i] : i \in DOMAIN ALL_TOOLS}

\* the parameters without a default in each tool's signature
RequiredArgs(tool) ==
  CASE tool = "vector_search" -> {"query"}
    [] tool = "sql_query" -> {"question"}
    [] tool = "calculate" -> {"expression"}
    [] tool = "compare_documents" -> {"doc_ids"}
    [] tool = "generate_report" -> {"report_type"}
    [] tool = "export_data" -> {"data"}
    [] OTHER -> {"description"}

\* tool.invoke(args) raises a ValidationError: the input is checked against the
\* schema inferred from the signature before the tool's body runs
InvokeInvalid(tool, args) ==
  ~ (args.type = "dict" /\ RequiredArgs(tool) \subseteq Keys(args))

\* the strings a tool invocation can return (a payload, or an error payload)
ToolPayloads == {"{\"chunks\": [...]}", "{\"error\": ...}"}

\* the payload a tool builds in its except branch
ErrorPayload == "{\"error\": ...}"

\* the tools that reach the vector store or the database
BackedTools == {"vector_search", "sql_query", "compare_documents", "flag_discrepancy"}

\* the tools whose body wraps the backing operation in try/except Exception
CatchingTools == {"sql_query", "compare_documents", "flag_discrepancy"}

\* the exception tool.invoke lets out when the backing store is down, "" when none
tool_error(tool, backend) ==
  IF backend = "down" /\ tool \in BackedTools \ CatchingTools
  THEN "ConnectionError"
  ELSE ""

\* the string tool.invoke returns, payload being what the tool computes when all is well
tool_result(tool, backend, payload) ==
  IF backend = "down" /\ tool \in BackedTools THEN ErrorPayload ELSE payload

(***************************************************************************)
(* The nodes (backend/agent/nodes.py).  Each returns the partial state     *)
(* update the Python function returns.                                     *)
(***************************************************************************)
Thinking(step, idx, detail) == [step |-> step, idx |-> idx, detail |-> detail]

\* classify_query comparing the response without lower-casing it
classify_query_no_lower(st, content) ==
  LET normal == strip(content)
      classification ==
        IF normal \notin {<<"simple">>, <<"complex">>} THEN <<"simple">> ELSE normal
  IN [ classification |-> PyStr(classification),
       thinking_steps |-> <<Thinking("classify", 0, PyStr(st.query))>> ]

classify_query(st, content) ==
  LET normal == lower(strip(content))
      classification ==
        IF normal \notin {<<"simple">>, <<"complex">>} THEN <<"simple">> ELSE normal
  IN [ classification |-> PyStr(classification),
       thinking_steps |-> <<Thinking("classify", 0, PyStr(st.query))>> ]

\* str.split("\n")
RECURSIVE split_lines(_)
split_lines(s) ==
  IF \A i \in 1..Len(s) : s[i] # "\n"
  THEN <<s>>
  ELSE LET i == CHOOSE k \in 1..Len(s) :
                  s[k] = "\n" /\ \A j \in 1..(k - 1) : s[j] # "\n"
       IN <<SubSeq(s, 1, i - 1)>> \o split_lines(SubSeq(s, i + 1, Len(s)))

\* str.lstrip(chars): drops every leading character that is in chars
RECURSIVE lstrip_chars(_, _)
lstrip_chars(s, chars) ==
  IF s # <<>> /\ Head(s) \in chars THEN lstrip_chars(Tail(s), chars) ELSE s

\* plan() keeping the untrimmed response as the step of a non-list answer
plan_steps_of_untrimmed(content) ==
  IF JsonInvalid(content)
  THEN LET lines == SelectSeq(split_lines(strip(content)),
                              LAMBDA line : strip(line) # <<>>)
       IN [i \in 1..Len(lines) |-> PyStr(lstrip_chars(strip(lines[i]), {"-", " "}))]
  ELSE LET steps == JsonLoads(content)
       IN IF steps.type # "list" THEN <<PyStr(content)>> ELSE steps.items

\* the steps plan() derives from the planner response
plan_steps_of(content) ==
  IF JsonInvalid(content)
  THEN LET lines == SelectSeq(split_lines(strip(content)),
                              LAMBDA line : strip(line) # <<>>)
       IN [i \in 1..Len(lines) |-> PyStr(lstrip_chars(strip(lines[i]), {"-", " "}))]
  ELSE LET steps == JsonLoads(content)
       IN IF steps.type # "list" THEN <<PyStr(strip(content))>> ELSE steps.items

plan(st, content) ==
  LET steps == plan_steps_of(content)
  IN [ plan_steps |-> steps,
       current_step |-> 0,
       thinking_steps |-> <<Thinking("plan", Len(steps), PyList(steps))>> ]

\* the input retrieve gives to vector_search
retrieve_args(st) == PyDict({<<"query", PyStr(st.query)>>})

\* retrieve tagging its entry with another tool's name
retrieve_tagging_sql_query(st, result) ==
  [ tool_results |->
      << [tool |-> PyStr(<<"sql_query">>), step |-> Absent, result |-> result] >>,
    thinking_steps |-> <<Thinking("retrieve", 0, PyStr(st.query))>> ]

retrieve(st, result) ==
  [ tool_results |->
      << [tool |-> PyStr(<<"vector_search">>), step |-> Absent, result |-> result] >>,
    thinking_steps |-> <<Thinking("retrieve", 0, PyStr(st.query))>> ]

\* tool_name and tool_args of execute_step, from the tool-selector response
ToolCall(content, step_description) ==
  LET fallback == [ tool |-> PyStr(<<"vector_search">>),
                    args |-> PyDict({<<"query", step_description>>}) ]
  IN IF JsonInvalid(content)
     THEN fallback
     ELSE LET tool_call == JsonLoads(content)
          IN IF tool_call.type # "dict"
             THEN fallback
             ELSE [ tool |-> DictGet(tool_call, "tool", fallback.tool),
                    args |-> DictGet(tool_call, "args", fallback.args) ]

\* tool_map.get(tool_name, ALL_TOOLS[0]), for a hashable tool_name
SelectedTool(tool_name) ==
  IF /\ tool_name.type = "str"
     /\ Len(tool_name.text) = 1
     /\ tool_name.text[1] \in ToolNames
  THEN tool_name.text[1]
  ELSE ALL_TOOLS[1]

\* the exception execute_step raises before it calls the reasoning client, "" when none
execute_step_index_error(st) ==
  IF st.current_step >= Len(st.plan_steps) THEN "IndexError" ELSE ""

\* the exception execute_step raises on this tool-selector response, "" when none
execute_step_error(st, content) ==
  LET call == ToolCall(content, st.plan_steps[st.current_step + 1])
  IN IF ~Hashable(call.tool) THEN "TypeError"
     ELSE IF InvokeInvalid(SelectedTool(call.tool), call.args) THEN "ValidationError"
     ELSE ""

\* execute_step advancing the cursor past the next step as well
execute_step_skipping(st, content, result) ==
  LET current_idx == st.current_step
      step_description == st.plan_steps[current_idx + 1]
      call == ToolCall(content, step_description)
  IN [ tool_results |->
         << [tool |-> call.tool, step |-> step_description, result |-> result] >>,
       current_step |-> current_idx + 2,
       thinking_steps |->
         << Thinking("execute_step", current_idx,
                     PyDict({<<"tool", call.tool>>, <<"args", call.args>>})) >> ]

execute_step(st, content, result) ==
  LET current_idx == st.current_step
      step_description == st.plan_steps[current_idx + 1]
      call == ToolCall(content, step_description)
  IN [ tool_results |->
         << [tool |-> call.tool, step |-> step_description, result |-> result] >>,
       current_step |-> current_idx + 1,
       thinking_steps |->
         << Thinking("execute_step", current_idx,
                     PyDict({<<"tool", call.tool>>, <<"args", call.args>>})) >> ]

\* synthesize resetting the plan as it answers
synthesize_clearing_plan(st, content) ==
  [ final_answer |-> PyStr(content),
    plan_steps |-> <<>>,
    messages |-> <<[role |-> "ai", content |-> content]>>,
    thinking_steps |->
      <<Thinking("synthesize", 0, PyInt(Len(st.tool_results)))>> ]

synthesize(st, content) ==
  [ final_answer |-> PyStr(content),
    messages |-> <<[role |-> "ai", content |-> content]>>,
    thinking_steps |->
      <<Thinking("synthesize", 0, PyInt(Len(st.tool_results)))>> ]

\* route_after_classify with the two branches exchanged
route_after_classify_swapped(st) ==
  IF st.classification = PyStr(<<"simple">>) THEN "plan" ELSE "retrieve"

route_after_classify(st) ==
  IF st.classification = PyStr(<<"simple">>) THEN "retrieve" ELSE "plan"

route_after_execute(st) ==
  IF st.current_step >= Len(st.plan_steps) THEN "synthesize" ELSE "execute_step"

(***************************************************************************)
(* The state channels (backend/agent/state.py) and the compiled graph      *)
(* (backend/agent/graph.py).                                               *)
(***************************************************************************)
Nodes == {"classify", "plan", "retrieve", "execute_step", "synthesize"}

\* A node's update is written channel by channel.  messages is declared with the
\* add_messages reducer and accumulates; every other key of AgentState is a plain
\* annotation, so the value a node returns replaces the value held.
Channel(st, update, key) ==
  IF key \in DOMAIN update
  THEN IF key = "messages" THEN st[key] \o update[key] ELSE update[key]
  ELSE st[key]

AgentState(st, update) ==
  [ messages |-> Channel(st, update, "messages"),
    query |-> Channel(st, update, "query"),
    classification |-> Channel(st, update, "classification"),
    plan_steps |-> Channel(st, update, "plan_steps"),
    current_step |-> Channel(st, update, "current_step"),
    tool_results |-> Channel(st, update, "tool_results"),
    final_answer |-> Channel(st, update, "final_answer"),
    citations |-> Channel(st, update, "citations"),
    thinking_steps |-> Channel(st, update, "thinking_steps") ]

\* the node that runs after node has written its update
create_agent_graph(node, st) ==
  CASE node = "classify" -> route_after_classify(st)
    [] node = "retrieve" -> "synthesize"
    [] node = "plan" -> "execute_step"
    [] node = "execute_step" -> route_after_execute(st)
    [] OTHER -> "END"

\* the state the chat endpoints start a run from
initial_state(message) ==
  [ messages |-> <<[role |-> "human", content |-> message]>>,
    query |-> message,
    classification |-> PyNone,
    plan_steps |-> <<>>,
    current_step |-> 0,
    tool_results |-> <<>>,
    final_answer |-> PyNone,
    citations |-> <<>>,
    thinking_steps |-> <<>> ]

(***************************************************************************)
(* The inputs of a run: the user's message and what the reasoning client   *)
(* and the tools answer.                                                   *)
(***************************************************************************)
\* every str of at most n lexemes drawn from lexemes
Strs(lexemes, n) == UNION {[1..k -> lexemes] : k \in 0..n}

Queries ==
  { <<"What is the total on invoice INV-001?">>,
    <<"Compare Q3 invoices against bank statements">> }

ClassifierResponses ==
  Strs({" ", "\n", "simple", "SIMPLE", "complex", "Complex", "unsure"}, MaxClassifierLen)

\* json.dumps of an array of literals
RECURSIVE JsonArrayBody(_)
JsonArrayBody(xs) ==
  IF Len(xs) = 0 THEN <<>>
  ELSE IF Len(xs) = 1 THEN <<xs[1]>>
  ELSE <<xs[1], ",">> \o <<" ">> \o JsonArrayBody(Tail(xs))

JsonArray(xs) == <<"[">> \o JsonArrayBody(xs) \o <<"]">>

\* json.dumps of an object, members a sequence of <<key literal, value literal>>
RECURSIVE JsonObjectBody(_)
JsonObjectBody(ms) ==
  IF Len(ms) = 0 THEN <<>>
  ELSE IF Len(ms) = 1 THEN <<ms[1][1], ":", " ", ms[1][2]>>
  ELSE <<ms[1][1], ":", " ", ms[1][2], ",", " ">> \o JsonObjectBody(Tail(ms))

JsonObject(ms) == <<"{">> \o JsonObjectBody(ms) \o <<"}">>

PlannerResponses ==
  LET arrays == {JsonArray(xs) :
                   xs \in Strs({"\"find invoices\"", "\"sum totals\""}, MaxPlanLen)}
  IN arrays
     \cup {<<"\n">> \o a \o <<" ">> : a \in arrays}
     \cup {<<"7">>, <<"{}">>, <<" ", "\"find invoices\"">>}
     \cup Strs({"-", " ", "\n", "find invoices"}, MaxTextLen)

SelectorResponses ==
  LET tools == {<<>>} \cup {<< <<"\"tool\"", t>> >> :
                  t \in {"\"vector_search\"", "\"calculate\"", "\"nonexistent\"", "[]"}}
      args == {<<>>} \cup {<< <<"\"args\"", a>> >> :
                  a \in {"{}", "{\"query\": \"invoices\"}", "{\"expression\": \"1+1\"}", "7"}}
      objects == {JsonObject(t \o a) : t \in tools, a \in args}
  IN objects
     \cup {JsonObject(<< <<"\"args\"", "{}">>, <<"\"tool\"", "\"vector_search\"">> >>)}
     \cup {<<"~~~json", "\n">> \o JsonObject(t \o a) \o <<"\n", "~~~">> :
             t \in tools \ {<<>>}, a \in {<<>>}}
     \cup {JsonObject(<< <<"\"tool\"", "\"sql_query\"">>,
                         <<"\"args\"", "{\"question\": \"totals\"}">> >>)}
     \cup {<<"[", "]">>, <<"7">>, <<"null">>, <<"vector_search">>, <<>>,
           <<"{", "\"tool\"", "}">>}

SynthesisResponses == {<<>>, <<"The total is INR 1,180.00">>}

(***************************************************************************)
(* One run of the graph (graph.invoke, or graph.astream node by node).     *)
(***************************************************************************)
NoEvent == <<>>

\* no request is being served by the other parts of the backend
RunsIdle == runs = <<>>

SqlIdle ==
  /\ sql_generated = <<>>
  /\ sql_submitted = <<>>
  /\ sql_ran = <<>>
  /\ sql_reply = ""

RequestsIdle ==
  /\ interaction_count = 0
  /\ user_documents = {}
  /\ requests = <<>>
  /\ admitted = 0

ProcessingIdle == document_tasks = <<>>

\* no call of chunk_document has been made
NoCall ==
  [pc |-> "idle", text |-> <<>>, start |-> 0, chunk_index |-> 0, chunks |-> <<>>,
   starts |-> <<>>]

ChunkerIdle == chunker = NoCall

AuthIdle ==
  /\ users = <<>>
  /\ auth_requests = <<>>

BackendIdle ==
  RunsIdle /\ SqlIdle /\ RequestsIdle /\ ProcessingIdle /\ ChunkerIdle /\ AuthIdle

\* the part of a node's output that chat_websocket reads from a stream event
StreamEvent(node, update) ==
  << [ node |-> node,
       thinking_steps |->
         IF "thinking_steps" \in DOMAIN update THEN update.thinking_steps ELSE <<>>,
       final_answer |->
         IF "final_answer" \in DOMAIN update THEN update.final_answer ELSE Absent ] >>

InitRun(modes) ==
  /\ \E message \in Queries : state = initial_state(message)
  /\ pc = "classify"
  /\ error = ""
  /\ calls = [n \in Nodes |-> 0]
  /\ executed = <<>>
  /\ invocations = <<>>
  /\ llm_response = <<>>
  /\ tool_calls = <<>>
  /\ mode \in modes
  /\ event = NoEvent
  /\ final_answer = PyNone
  /\ sent = <<>>
  /\ driver = "running"
  /\ BackendIdle

Init == InitRun({"invoke"})

\* no graph run is in progress
AgentIdle ==
  /\ state = initial_state(<<>>)
  /\ pc = "idle"
  /\ error = ""
  /\ calls = [n \in Nodes |-> 0]
  /\ executed = <<>>
  /\ invocations = <<>>
  /\ llm_response = <<>>
  /\ tool_calls = <<>>
  /\ mode = "invoke"
  /\ event = NoEvent
  /\ final_answer = PyNone
  /\ sent = <<>>
  /\ driver = "idle"

\* the node returned its update: the channels are written and the next node is
\* chosen; astream yields the update before it runs the next node
Returned(node, update, results, content, invoked) ==
  LET written == AgentState(state, update)
  IN /\ event = NoEvent
     /\ state' = written
     /\ pc' = create_agent_graph(node, written)
     /\ calls' = [calls EXCEPT ![node] = @ + 1]
     /\ executed' = Append(executed, node)
     /\ invocations' = invocations \o results
     /\ llm_response' = content
     /\ tool_calls' = tool_calls \o invoked
     /\ event' = IF mode = "astream" THEN StreamEvent(node, update) ELSE event
     /\ UNCHANGED <<error, mode, final_answer, sent, driver, backendVars>>

\* the node raised: the exception leaves the graph and no further node runs
Raised(node, exception, content, invoked) ==
  /\ event = NoEvent
  /\ pc' = "raised"
  /\ error' = exception
  /\ calls' = [calls EXCEPT ![node] = @ + 1]
  /\ llm_response' = content
  /\ tool_calls' = tool_calls \o invoked
  /\ UNCHANGED <<state, executed, invocations, mode, event, final_answer, sent, driver,
                 backendVars>>

Backends == {"up", "down"}

Invocation(tool, args, backend) == <<[tool |-> tool, args |-> args, backend |-> backend]>>

\* the classify node, the reasoning client answering one of responses
ClassifyNode(responses) ==
  /\ pc = "classify"
  /\ \E content \in responses :
       Returned("classify", classify_query(state, content), <<>>, content, <<>>)

\* the plan node
PlanNode(responses) ==
  /\ pc = "plan"
  /\ \E content \in responses :
       Returned("plan", plan(state, content), <<>>, content, <<>>)

Retrieve ==
  /\ pc = "retrieve"
  /\ \E backend \in Backends, payload \in ToolPayloads :
       LET tool == ALL_TOOLS[1]
           invoked == Invocation(tool, retrieve_args(state), backend)
           update == retrieve(state, tool_result(tool, backend, payload))
       IN IF tool_error(tool, backend) # ""
          THEN Raised("retrieve", tool_error(tool, backend), llm_response, invoked)
          ELSE Returned("retrieve", update, update.tool_results, llm_response, invoked)

\* the execute_step node
ExecuteStepNode(responses) ==
  /\ pc = "execute_step"
  /\ IF execute_step_index_error(state) # ""
     THEN Raised("execute_step", execute_step_index_error(state), llm_response, <<>>)
     ELSE \E content \in responses :
            IF execute_step_error(state, content) # ""
            THEN Raised("execute_step", execute_step_error(state, content), content, <<>>)
            ELSE \E backend \in Backends, payload \in ToolPayloads :
                   LET call == ToolCall(content, state.plan_steps[state.current_step + 1])
                       tool == SelectedTool(call.tool)
                       invoked == Invocation(tool, call.args, backend)
                       update ==
                         execute_step(state, content, tool_result(tool, backend, payload))
                   IN IF tool_error(tool, backend) # ""
                      THEN Raised("execute_step", tool_error(tool, backend), content, invoked)
                      ELSE Returned("execute_step", update, update.tool_results,
                                    content, invoked)

Synthesize ==
  /\ pc = "synthesize"
  /\ \E content \in SynthesisResponses :
       Returned("synthesize", synthesize(state, content), <<>>, content, <<>>)

\* the reasoning client raises (network, timeout, quota) inside llm.invoke
LLMFails ==
  /\ pc \in {"classify", "plan", "execute_step", "synthesize"}
  /\ pc = "execute_step" => execute_step_index_error(state) = ""
  /\ Raised(pc, "APIError", llm_response, <<>>)

Classify == ClassifyNode(ClassifierResponses)

Plan == PlanNode(PlannerResponses)

ExecuteStep == ExecuteStepNode(SelectorResponses)

Next == Classify \/ Plan \/ Retrieve \/ ExecuteStep \/ Synthesize \/ LLMFails

Spec == Init /\ [][Next]_vars

(***************************************************************************)
(* The run drivers (backend/routers/chat.py): chat runs graph.invoke and   *)
(* answers once; chat_websocket consumes graph.astream, sends a "thinking" *)
(* event per trace entry and a final "message" event.                      *)
(***************************************************************************)
Delivery(type, content, tool, idx, steps) ==
  [type |-> type, content |-> content, tool |-> tool, idx |-> idx, thinking_steps |-> steps]

\* bool(value) for the values final_answer takes
Truthy(v) == v.type = "str" /\ v.text # <<>>

\* chat: the ChatMessage built from the result of graph.invoke
chat_message(result) ==
  Delivery("response", result.final_answer.text, "", 0, result.thinking_steps)

\* chat: the ChatMessage of the except branch
chat_error_message(exception) ==
  Delivery("response",
           <<"I encountered an error while processing your request: ", exception>>,
           "", 0, <<>>)

\* chat_websocket sending no event for the classify node
websocket_thinking_after_classify(ev) ==
  IF ev.node = "classify" THEN <<>>
  ELSE [i \in 1..Len(ev.thinking_steps) |->
          Delivery("thinking", <<>>, ev.thinking_steps[i].step,
                   ev.thinking_steps[i].idx, <<>>)]

\* chat_websocket: the "thinking" events sent for one stream event
websocket_thinking(ev) ==
  [i \in 1..Len(ev.thinking_steps) |->
     Delivery("thinking", <<>>, ev.thinking_steps[i].step, ev.thinking_steps[i].idx, <<>>)]

\* chat_websocket: final_answer after one stream event
websocket_final_answer(held, ev) ==
  IF Truthy(ev.final_answer) THEN ev.final_answer ELSE held

\* chat_websocket: the "message" event sent after the stream has ended
websocket_message(held) ==
  Delivery("message",
           IF ~Truthy(held) THEN <<"I could not generate a response.">> ELSE held.text,
           "", 0, <<>>)

\* chat_websocket: the "message" event of the except branch
websocket_error_message(exception) ==
  Delivery("message", <<"Error: ", exception>>, "", 0, <<>>)

\* the drivers without their except branches
driver_reply_uncaught(how, stopped, exception, result, held) ==
  IF stopped # "END" THEN <<>>
  ELSE IF how = "invoke" THEN <<chat_message(result)>>
  ELSE <<websocket_message(held)>>

\* the final deliveries of a run driver once the graph has stopped
driver_reply(how, stopped, exception, result, held) ==
  IF how = "invoke"
  THEN IF stopped = "END" THEN <<chat_message(result)>>
       ELSE <<chat_error_message(exception)>>
  ELSE IF stopped = "END" THEN <<websocket_message(held)>>
       ELSE <<websocket_error_message(exception)>>

InitDriver == InitRun({"invoke", "astream"})

\* The drivers are run on one reasoning-client response of each kind the nodes
\* tell apart.
DriverClassifierResponses == {<<"simple">>, <<" ", "Complex">>, <<"unsure">>}

DriverPlannerResponses ==
  { JsonArray(<<>>),
    JsonArray(<<"\"find invoices\"">>),
    JsonArray(<<"\"find invoices\"", "\"sum totals\"">>),
    <<"-", " ", "find invoices">> }

DriverSelectorResponses ==
  { <<>>,
    JsonObject(<< <<"\"tool\"", "\"vector_search\"">>,
                  <<"\"args\"", "{\"query\": \"invoices\"}">> >>),
    JsonObject(<< <<"\"tool\"", "\"sql_query\"">>,
                  <<"\"args\"", "{\"question\": \"totals\"}">> >>),
    JsonObject(<< <<"\"tool\"", "\"nonexistent\"">>, <<"\"args\"", "{}">> >>) }

DriverClassify == ClassifyNode(DriverClassifierResponses)

DriverPlan == PlanNode(DriverPlannerResponses)

DriverExecuteStep == ExecuteStepNode(DriverSelectorResponses)

\* chat_websocket: the body of the async for loop, for the event astream yielded
WebSocketEvent ==
  /\ mode = "astream"
  /\ event # NoEvent
  /\ driver = "running"
  /\ sent' = sent \o websocket_thinking(event[1])
  /\ final_answer' = websocket_final_answer(final_answer, event[1])
  /\ event' = NoEvent
  /\ UNCHANGED <<state, pc, error, calls, executed, invocations, llm_response,
                 tool_calls, mode, driver, backendVars>>

\* the graph has stopped (END, or an exception caught by the driver's except
\* branch): the driver delivers its final response
Reply ==
  /\ driver = "running"
  /\ pc \in {"END", "raised"}
  /\ event = NoEvent
  /\ LET reply == driver_reply(mode, pc, error, state, final_answer)
     IN /\ sent' = sent \o reply
        /\ driver' = IF reply = <<>> THEN "crashed" ELSE "done"
  /\ UNCHANGED <<state, pc, error, calls, executed, invocations, llm_response,
                 tool_calls, mode, event, final_answer, backendVars>>

NextDriver ==
  \/ DriverClassify \/ DriverPlan \/ Retrieve \/ DriverExecuteStep \/ Synthesize
  \/ LLMFails \/ WebSocketEvent \/ Reply

SpecDriver == InitDriver /\ [][NextDriver]_vars

(***************************************************************************)
(* Properties of a run.                                                    *)
(***************************************************************************)
Over == pc \in {"END", "raised"}
Simple == state.classification = PyStr(<<"simple">>)
Complex == state.classification = PyStr(<<"complex">>)
StepIds(entries) == [i \in 1..Len(entries) |-> entries[i].step]

\* the exceptions that come from the tool-selector response of execute_step
SelectorErrors == {"TypeError", "ValidationError"}

\* C1: whatever the classifier, the planner and the tool selector answer, a run
\* executes synthesize exactly once and so sets final_answer exactly once, on
\* the simple path and on the complex path, a plan of zero steps included.
\* (Stated for the runs in which no tool-selector response made execute_step raise.)
C1_SynthesizeExactlyOnce ==
  /\ calls["synthesize"] <= 1
  /\ (Over /\ error \notin ({"APIError"} \cup SelectorErrors)) =>
       /\ calls["synthesize"] = 1
       /\ state.final_answer.type = "str"

\* C2: for every plan, of any length including 0, execute_step is invoked exactly
\* len(plan_steps) times before the router sends the run to synthesize, each
\* invocation raising current_step by exactly 1.
C2_ExecuteStepPerPlanStep ==
  calls["plan"] = 1 =>
    /\ calls["execute_step"] <= Len(state.plan_steps)
    /\ pc \in {"synthesize", "END"} =>
         /\ calls["execute_step"] = Len(state.plan_steps)
         /\ state.current_step = calls["execute_step"]

\* C3: tool_results is append-only: when synthesize runs it reads one entry per
\* tool invocation of the run, the i-th being the result of the i-th invocation.
C3_ToolResultsAppendOnly ==
  pc = "synthesize" => state.tool_results = invocations

\* C4: thinking_steps is an append-only log: the thinking_steps a completed run
\* returns holds one entry for every node executed, in execution order.
C4_ThinkingStepsLog ==
  pc = "END" => StepIds(state.thinking_steps) = executed

\* the tool-selector response is a JSON object whose "tool" is a string that is
\* no tool of the registry
NamesUnknownTool(content) ==
  /\ ~JsonInvalid(content)
  /\ JsonLoads(content).type = "dict"
  /\ LET name == DictGet(JsonLoads(content), "tool", Absent)
     IN name.type = "str" /\ \A t \in ToolNames : name.text # <<t>>

\* ... and whose "args" is the empty object
EmptyArgs(content) == DictGet(JsonLoads(content), "args", Absent) = PyDict({})

\* C5: when the tool selector names a tool that is not in the registry, with any
\* args value, the empty object {} included, execute_step does not raise: it
\* appends exactly one tool_results entry and increments current_step.
\* (Stated for the args value {}.)
C5_UnknownToolFallsBack ==
  ( /\ calls["execute_step"] > 0
    /\ calls["synthesize"] = 0
    /\ NamesUnknownTool(llm_response)
    /\ EmptyArgs(llm_response) ) =>
    /\ error = ""
    /\ Len(invocations) = calls["execute_step"]
    /\ state.current_step = calls["execute_step"]

\* C6: malformed model output never aborts a run: whatever the classifier, the
\* planner and the tool selector answer, no node raises (the reasoning client
\* itself failing apart) and a finished run has final_answer set.
C6_MalformedOutputNeverAborts ==
  /\ error \in {"", "APIError"}
  /\ pc = "END" => state.final_answer.type = "str"

\* C7: execute_step is never entered with current_step >= len(plan_steps).
C7_ExecuteStepInBounds ==
  pc = "execute_step" => state.current_step < Len(state.plan_steps)

\* C8: in every reachable state of a run, 0 <= current_step <= len(plan_steps).
C8_CursorWithinPlan ==
  /\ 0 <= state.current_step
  /\ state.current_step <= Len(state.plan_steps)

C8_Witness ==
  /\ Len(state.plan_steps) = 2
  /\ state.current_step = 2
  /\ calls["execute_step"] = 2

\* the response is the label, in any letter case, with only whitespace around it
IsLabel(content, label) ==
  \E i \in 1..Len(content) :
    /\ LowerLexeme(content[i]) = label
    /\ \A j \in 1..Len(content) : j # i => content[j] \in Whitespace

\* C9: the classification stored is "complex" or "simple" when the trimmed,
\* lower-cased classifier response is exactly that word, and "simple" for every
\* other response; classify_query raises for no response text.
C9_ClassificationFallback ==
  /\ executed = <<"classify">> =>
       state.classification =
         PyStr(IF IsLabel(llm_response, "complex") THEN <<"complex">> ELSE <<"simple">>)
  /\ (pc = "raised" /\ executed = <<>>) => error = "APIError"

C9_Witness ==
  /\ executed = <<"classify">>
  /\ llm_response = <<"\n", "unsure", " ">>
  /\ Simple

\* C10: a run takes a single path: classify runs first and exactly once; after it
\* retrieve runs iff the classification is "simple" and plan runs iff it is
\* "complex", never both; only execute_step runs more than once.
C10_SinglePath ==
  /\ \A n \in Nodes \ {"execute_step"} : calls[n] <= 1
  /\ (\E n \in Nodes : calls[n] > 0) => calls["classify"] = 1
  /\ executed # <<>> => executed[1] = "classify"
  /\ calls["retrieve"] + calls["plan"] <= 1
  /\ calls["retrieve"] = 1 => Simple
  /\ calls["plan"] = 1 => Complex
  /\ (Len(executed) = 1 /\ pc # "raised") =>
       /\ pc = "retrieve" <=> Simple
       /\ pc = "plan" <=> Complex
  /\ pc = "END" =>
       /\ calls["retrieve"] = 1 <=> Simple
       /\ calls["plan"] = 1 <=> Complex

C10_Witness ==
  /\ pc = "END"
  /\ executed = <<"classify", "plan", "execute_step", "execute_step", "synthesize">>

(***************************************************************************)
(* The plan derived from a planner response that is not a JSON list.       *)
(***************************************************************************)
\* plan has just returned and llm_response is the planner's response
AfterPlan ==
  pc = "execute_step" /\ executed # <<>> /\ executed[Len(executed)] = "plan"

\* C11: when the planner response is not valid JSON, plan_steps has at least
\* one element, an empty or whitespace-only response included.
C11_NonJsonPlanNonEmpty ==
  (AfterPlan /\ JsonInvalid(llm_response)) => Len(state.plan_steps) >= 1

\* position k holds the first character of a line of s that is not whitespace
FirstOfLine(s, k) ==
  /\ s[k] \notin Whitespace
  /\ \A j \in 1..(k - 1) :
       (\A m \in j..(k - 1) : s[m] # "\n") => s[j] \in Whitespace

\* the trimmed text of the line of s whose first character is at k
LineAt(s, k) ==
  LET last == CHOOSE e \in k..Len(s) :
                /\ s[e] \notin Whitespace
                /\ \A m \in k..e : s[m] # "\n"
                /\ \A m \in (e + 1)..Len(s) :
                     (\A n \in e..m : s[n] # "\n") => s[m] \in Whitespace
  IN SubSeq(s, k, last)

\* the trimmed non-empty lines of s, in order
RECURSIVE LinesFrom(_, _)
LinesFrom(s, k) ==
  IF k > Len(s) THEN <<>>
  ELSE IF FirstOfLine(s, k) THEN <<LineAt(s, k)>> \o LinesFrom(s, k + 1)
  ELSE LinesFrom(s, k + 1)

\* a trimmed line with a leading "- " bullet marker removed, if it has one
Unbulleted(line) ==
  IF Len(line) >= 2 /\ line[1] = "-" /\ line[2] = " "
  THEN lstrip_ws(SubSeq(line, 3, Len(line)))
  ELSE line

\* C12: when the planner response is not valid JSON, plan_steps is the sequence
\* of its non-empty lines in order, each trimmed and with only a leading "- "
\* bullet removed: no other leading character is dropped and no step is empty.
C12_LinesWithBulletRemoved ==
  (AfterPlan /\ JsonInvalid(llm_response)) =>
    LET lines == LinesFrom(llm_response, 1)
    IN /\ Len(state.plan_steps) = Len(lines)
       /\ \A i \in 1..Len(lines) :
            /\ state.plan_steps[i] = PyStr(Unbulleted(lines[i]))
            /\ state.plan_steps[i] # PyStr(<<>>)

\* t is s without its leading and trailing whitespace
IsTrimOf(t, s) ==
  \E i \in 0..Len(s) :
    /\ i + Len(t) <= Len(s)
    /\ SubSeq(s, i + 1, i + Len(t)) = t
    /\ \A k \in 1..i : s[k] \in Whitespace
    /\ \A k \in (i + Len(t) + 1)..Len(s) : s[k] \in Whitespace
    /\ t # <<>> => (t[1] \notin Whitespace /\ t[Len(t)] \notin Whitespace)

\* the planner response parsed, and to a JSON value that is not a list
NonListJson(content) == ~JsonInvalid(content) /\ JsonLoads(content).type # "list"

MalformedSelection(content) ==
  \/ JsonInvalid(content)
  \/ JsonLoads(content).type # "dict"
  \/ DictGet(JsonLoads(content), "tool", Absent).type # "str"
  \/ DictGet(JsonLoads(content), "args", Absent).type # "dict"

\* execute_step has called the reasoning client and llm_response is the
\* tool selector's response
AfterSelection ==
  /\ calls["execute_step"] > 0
  /\ calls["synthesize"] = 0
  /\ error \notin {"APIError", "IndexError"}

\* the plan step the last execute_step worked on
SelectedStep ==
  state.plan_steps[IF pc = "raised" THEN state.current_step + 1 ELSE state.current_step]

\* C14: for every tool-selector response that is invalid JSON, is JSON but not
\* an object, or is an object whose tool or args field is missing or
\* wrong-shaped, execute_step invokes vector_search with args exactly
\* {query: step description}.
C14_MalformedSelectionFallsBack ==
  (AfterSelection /\ MalformedSelection(llm_response)) =>
    /\ error \in {"", "ConnectionError"}
    /\ tool_calls # <<>>
    /\ LET call == tool_calls[Len(tool_calls)]
       IN /\ call.tool = "vector_search"
          /\ call.args = PyDict({<<"query", SelectedStep>>})

(***************************************************************************)
(* The simple path.                                                        *)
(***************************************************************************)
IsPrefix(s, t) == Len(s) <= Len(t) /\ s = SubSeq(t, 1, Len(s))

\* C15: on the simple path the node sequence is exactly classify, retrieve,
\* synthesize: plan and execute_step never run, retrieve invokes vector_search
\* once with the query, and synthesize sees exactly one tool_results entry,
\* tagged "vector_search", whatever payload the search returned.
C15_SimplePath ==
  Simple =>
    /\ calls["plan"] = 0 /\ calls["execute_step"] = 0
    /\ IsPrefix(executed, <<"classify", "retrieve", "synthesize">>)
    /\ pc = "END" => executed = <<"classify", "retrieve", "synthesize">>
    /\ calls["retrieve"] = 0 => tool_calls = <<>>
    /\ calls["retrieve"] > 0 =>
         /\ calls["retrieve"] = 1
         /\ Len(tool_calls) = 1
         /\ tool_calls[1].tool = "vector_search"
         /\ tool_calls[1].args = PyDict({<<"query", PyStr(state.query)>>})
    /\ (pc = "synthesize" \/ calls["synthesize"] > 0) =>
         /\ Len(state.tool_results) = 1
         /\ state.tool_results[1].tool = PyStr(<<"vector_search">>)
         /\ state.tool_results[1].result \in ToolPayloads

\* a simple run has ended after synthesize saw the search's result
C15_Witness ==
  /\ Simple
  /\ pc = "END"
  /\ executed = <<"classify", "retrieve", "synthesize">>
  /\ Len(state.tool_results) = 1
  /\ Len(tool_calls) = 1

(***************************************************************************)
(* Failures of the reasoning client and of the tools, and what the         *)
(* drivers deliver.                                                        *)
(***************************************************************************)
RECURSIVE Sum(_, _)
Sum(f, S) == IF S = {} THEN 0 ELSE LET x == CHOOSE y \in S : TRUE
                                  IN f[x] + Sum(f, S \ {x})

\* the final responses and the progress events among the deliveries
FinalResponses == SelectSeq(sent, LAMBDA d : d.type \in {"response", "message"})
ThinkingEvents == SelectSeq(sent, LAMBDA d : d.type = "thinking")

\* the degraded answer of each driver for an exception
DegradedAnswers(exception) ==
  { <<"I encountered an error while processing your request: ", exception>>,
    <<"Error: ", exception>> }

\* C16: if the reasoning client raises in any node, the run driver, in batch
\* mode and in WebSocket streaming mode, lets no exception escape to the
\* caller, executes no further node of that run, and delivers exactly one
\* final response whose content is a degraded answer string.
C16_ReasoningClientFailureIsCaught ==
  error = "APIError" =>
    /\ driver # "crashed"
    /\ pc = "raised"
    /\ Sum(calls, Nodes) = Len(executed) + 1
    /\ driver = "running" => (FinalResponses = <<>> /\ ENABLED Reply)
    /\ driver = "done" =>
         /\ Len(FinalResponses) = 1
         /\ sent[Len(sent)] = FinalResponses[1]
         /\ FinalResponses[1].content \in DegradedAnswers("APIError")

\* the streaming driver has answered a run whose reasoning client raised
\* after two nodes had completed
C16_Witness ==
  /\ error = "APIError"
  /\ driver = "done"
  /\ mode = "astream"
  /\ Len(executed) = 2
  /\ Len(FinalResponses) = 1

\* the trace entries the caller has been given
DeliveredTrace ==
  IF mode = "invoke" THEN sent[Len(sent)].thinking_steps ELSE ThinkingEvents

\* C17: when a run is aborted by a failure after at least one node has
\* completed, the trace entries recorded by the nodes that completed before the
\* failure are still delivered to the caller together with the degraded answer.
\* (Stated for the runs that a failure of the reasoning client aborts.)
C17_PartialTraceDelivered ==
  (driver = "done" /\ pc = "raised" /\ error = "APIError" /\ Len(executed) >= 1) =>
    Len(DeliveredTrace) = Len(executed)

\* C18: when a tool's backing operation fails, the tool invocation returns an
\* error-shaped result string instead of raising, and execute_step treats it
\* as a normal result: it appends one tool_results entry, increments
\* current_step, and the run continues.
C18_ToolFailureIsAResult ==
  ( /\ AfterSelection
    /\ error \in {"", "ConnectionError"}
    /\ tool_calls # <<>>
    /\ tool_calls[Len(tool_calls)].backend = "down"
    /\ tool_calls[Len(tool_calls)].tool \in BackedTools ) =>
    /\ error = ""
    /\ pc # "raised"
    /\ state.current_step = calls["execute_step"]
    /\ state.tool_results[Len(state.tool_results)].result = ErrorPayload

\* C19: for identical query and identical reasoning-client and tool responses,
\* the batch driver and the streaming driver deliver the same final answer,
\* for every synthesis response text, the empty string included.
C19_SameFinalAnswer ==
  (mode = "astream" /\ driver = "done" /\ pc = "END") =>
    sent[Len(sent)].content = chat_message(state).content

\* C20: in streamed mode the thinking events of a run are sent in exactly the
\* order the nodes executed, one node's events before the next node starts,
\* and the final message event is sent only after every thinking event.
C20_StreamOrder ==
  mode = "astream" =>
    /\ Len(ThinkingEvents) = (IF event = NoEvent THEN Len(executed) ELSE Len(executed) - 1)
    /\ \A i \in 1..Len(ThinkingEvents) : ThinkingEvents[i].tool = executed[i]
    /\ \A i \in 1..Len(sent) :
         sent[i].type = "message" =>
           /\ i = Len(sent)
           /\ event = NoEvent
           /\ driver = "done"
           /\ Len(ThinkingEvents) = Len(executed)
    /\ driver = "done" => sent[Len(sent)].type = "message"

\* a streamed complex run has ended: four nodes' events, then the message
C20_Witness ==
  /\ mode = "astream"
  /\ driver = "done"
  /\ pc = "END"
  /\ Len(ThinkingEvents) = 4
  /\ executed = <<"classify", "plan", "execute_step", "synthesize">>
  /\ sent[5].type = "message"

(***************************************************************************)
(* Concurrent requests.  Each request to chat or chat_websocket builds its *)
(* own initial_state and its own compiled graph and runs it; the nodes of  *)
(* the runs of different requests interleave.                              *)
(***************************************************************************)
MaxRuns == 2  \* the requests served at the same time

\* the exception the node raises on this response, "" when it returns
node_error(node, st, content) ==
  IF node # "execute_step" THEN ""
  ELSE IF execute_step_index_error(st) # "" THEN execute_step_index_error(st)
  ELSE execute_step_error(st, content)

\* the update the node registered under this name returns
node_update(node, st, content, result) ==
  CASE node = "classify" -> classify_query(st, content)
    [] node = "plan" -> plan(st, content)
    [] node = "retrieve" -> retrieve(st, result)
    [] node = "execute_step" -> execute_step(st, content, result)
    [] OTHER -> synthesize(st, content)

\* a run [state, pc] after its next node has run on this response
after_node(run, content, result) ==
  IF node_error(run.pc, run.state, content) # ""
  THEN [state |-> run.state, pc |-> "raised"]
  ELSE LET written ==
             AgentState(run.state, node_update(run.pc, run.state, content, result))
       IN [state |-> written, pc |-> create_agent_graph(run.pc, written)]

\* a request arrives: its run starts from a fresh initial_state
new_run(message) ==
  [state |-> initial_state(message), pc |-> "classify", query |-> message,
   responses |-> <<>>]

\* every run holding the one state object that run r writes
store_run_shared(rs, r, after, response) ==
  [q \in DOMAIN rs |->
     IF q = r
     THEN [rs[q] EXCEPT !.state = after.state, !.pc = after.pc,
                        !.responses = Append(@, response)]
     ELSE [rs[q] EXCEPT !.state = after.state]]

\* the state written by a node of run r belongs to run r's invocation only
store_run(rs, r, after, response) ==
  [rs EXCEPT ![r].state = after.state, ![r].pc = after.pc,
             ![r].responses = Append(@, response)]

\* the reasoning-client responses the concurrent runs are given, by node
RunResponses(node) ==
  CASE node = "classify" -> {<<"simple">>, <<"complex">>}
    [] node = "plan" -> { JsonArray(<<"\"find invoices\"">>),
                          JsonArray(<<"\"find invoices\"", "\"sum totals\"">>) }
    [] node = "execute_step" ->
         { <<>>, JsonObject(<< <<"\"tool\"", "\"nonexistent\"">>, <<"\"args\"", "{}">> >>) }
    [] node = "synthesize" -> {<<"The total is INR 1,180.00">>}
    [] OTHER -> {<<>>}

RunPayload == "{\"chunks\": [...]}"

\* the backend before any request
InitBackend == AgentIdle /\ BackendIdle

InitRuns == InitBackend

StartRun ==
  /\ Len(runs) < MaxRuns
  /\ \E message \in Queries : runs' = Append(runs, new_run(message))
  /\ UNCHANGED exceptRuns

RunNode ==
  /\ \E r \in DOMAIN runs :
       /\ runs[r].pc \in Nodes
       /\ \E content \in RunResponses(runs[r].pc) :
            runs' = store_run(runs, r,
                              after_node(runs[r], content, RunPayload),
                              content)
  /\ UNCHANGED exceptRuns

NextRuns == StartRun \/ RunNode

SpecRuns == InitRuns /\ [][NextRuns]_vars

\* the run of a request served alone and given these responses
RECURSIVE Alone(_, _)
Alone(run, responses) ==
  IF responses = <<>> THEN run
  ELSE Alone(after_node(run, Head(responses), RunPayload), Tail(responses))

AloneFrom(message, responses) ==
  Alone([state |-> initial_state(message), pc |-> "classify"], responses)

C22_SingleWriter ==
  /\ [] /\ calls["synthesize"] = 0 => state.final_answer = PyNone
        /\ calls["classify"] = 0 => state.classification = PyNone
        /\ calls["plan"] = 0 => state.plan_steps = <<>>
        /\ calls["classify"] <= 1 /\ calls["plan"] <= 1
  /\ [][ /\ state'.final_answer # state.final_answer => pc = "synthesize"
         /\ state'.classification # state.classification => pc = "classify"
         /\ state'.plan_steps # state.plan_steps => pc = "plan"
         /\ state'.query = state.query ]_vars

\* a complex run has ended with its two-step plan and its answer in the state
C22_Witness ==
  /\ pc = "END"
  /\ Complex
  /\ Len(state.plan_steps) = 2
  /\ state.final_answer # PyNone

\* the name of the tool the last execute_step invoked
InvokedTool == tool_calls[Len(tool_calls)].tool

\* C23: for every execute_step invocation, the tool name and args recorded in
\* the appended tool_results entry and in the trace entry are those of the tool
\* that was actually invoked after all fallbacks: when an unknown name falls
\* back to the default tool, the recorded name is the default tool's name.
C23_RecordedToolIsInvokedTool ==
  ( /\ AfterSelection
    /\ error = ""
    /\ tool_calls # <<>> ) =>
    LET entry == state.tool_results[Len(state.tool_results)]
        trace == state.thinking_steps[Len(state.thinking_steps)].detail
    IN /\ entry.tool = PyStr(<<InvokedTool>>)
       /\ DictGet(trace, "tool", Absent) = PyStr(<<InvokedTool>>)
       /\ DictGet(trace, "args", Absent) = tool_calls[Len(tool_calls)].args

(***************************************************************************)
(* The sql_query tool (backend/agent/tools.py).  The model's answer is     *)
(* cleaned, checked for its SELECT prefix and passed to session.execute.   *)
(* The lexeme "~~~" stands for a run of backquotes (a code fence).         *)
(***************************************************************************)
MaxSqlLen == 3  \* longest generated text, in lexemes

Fence == "~~~"

\* the SQL statements the generated texts are made of, and what each one is
SqlStatements ==
  {"SELECT 1", "select 1", "SELECT 1 INTO backup", "DELETE FROM documents"}

StatementKind(statement) ==
  CASE statement \in {"SELECT 1", "select 1"} -> "SELECT"
    [] statement = "SELECT 1 INTO backup" -> "SELECT INTO"
    [] OTHER -> "DELETE"

RECURSIVE rstrip_chars(_, _)
rstrip_chars(s, chars) ==
  IF s # <<>> /\ s[Len(s)] \in chars
  THEN rstrip_chars(SubSeq(s, 1, Len(s) - 1), chars)
  ELSE s

\* str.strip(chars)
strip_chars(s, chars) == rstrip_chars(lstrip_chars(s, chars), chars)

\* str.replace(old, ""), old a str of two lexemes
RECURSIVE remove_all(_, _)
remove_all(s, old) ==
  IF Len(s) < 2 THEN s
  ELSE IF SubSeq(s, 1, 2) = old THEN remove_all(SubSeq(s, 3, Len(s)), old)
  ELSE <<Head(s)>> \o remove_all(Tail(s), old)

\* the upper-case form of one lexeme
UpperLexeme(t) == IF t = "select 1" THEN "SELECT 1" ELSE t

\* sql.upper().startswith("SELECT")
upper_startswith_select(sql) ==
  sql # <<>> /\ UpperLexeme(sql[1]) \in {"SELECT 1", "SELECT 1 INTO backup"}

\* the cleaned text: response.content.strip().strip(backquote).replace("sql\n", "")
sql_text(content) == remove_all(strip_chars(strip(content), {Fence}), <<"sql", "\n">>)

\* the text up to the first ";" and the text after it
RECURSIVE split_statements(_)
split_statements(s) ==
  IF \A i \in 1..Len(s) : s[i] # ";"
  THEN <<s>>
  ELSE LET i == CHOOSE k \in 1..Len(s) :
                  s[k] = ";" /\ \A j \in 1..(k - 1) : s[j] # ";"
       IN <<SubSeq(s, 1, i - 1)>> \o split_statements(SubSeq(s, i + 1, Len(s)))

\* session.execute(text(sql)) on the asyncpg connection: the text is prepared
\* as one statement, so a text of several commands, of none, or of no
\* well-formed command is rejected; a single command is executed, and only a
\* SELECT returns rows to fetchall
session_execute(sql) ==
  LET commands == SelectSeq(split_statements(sql), LAMBDA c : strip(c) # <<>>)
      command == strip(commands[1])
  IN IF Len(commands) # 1 \/ Len(command) # 1 \/ command[1] \notin SqlStatements
     THEN [ran |-> <<>>, rows |-> FALSE]
     ELSE [ran |-> command, rows |-> StatementKind(command[1]) = "SELECT"]

\* sql_query after the reasoning client has answered
sql_query(content) ==
  LET sql == sql_text(content)
      result == session_execute(sql)
  IN IF ~upper_startswith_select(sql)
     THEN [submitted |-> <<>>, ran |-> <<>>, reply |-> "only SELECT error"]
     ELSE [submitted |-> <<sql>>, ran |-> result.ran,
           reply |-> IF result.rows THEN "rows" ELSE "query error"]

\* the texts the reasoning client generates for the question
SqlResponses ==
  Strs(SqlStatements \cup {";", " ", "\n", "sql", Fence}, MaxSqlLen) \ {<<>>}

SqlQuery ==
  /\ sql_reply = ""
  /\ \E content \in SqlResponses :
       LET call == sql_query(content)
       IN /\ sql_generated' = content
          /\ sql_submitted' = call.submitted
          /\ sql_ran' = call.ran
          /\ sql_reply' = call.reply
  /\ UNCHANGED exceptSql

NextSql == SqlQuery

SpecSql == InitBackend /\ [][NextSql]_vars

\* C24: the sql_query tool is restricted to read-only queries: for every text
\* the model generates, no statement other than a single SELECT is ever
\* executed against the database; any other generated text yields an error
\* payload without touching the database.
C24_OnlySelectReachesDatabase ==
  sql_reply # "" =>
    LET single_select == Len(sql_ran) = 1 /\ StatementKind(sql_ran[1]) = "SELECT"
    IN /\ sql_ran # <<>> => single_select
       /\ ~single_select =>
            /\ sql_reply \in {"only SELECT error", "query error"}
            /\ sql_submitted = <<>>

(***************************************************************************)
(* The requests of one user (backend/routers/chat.py, documents.py and     *)
(* middleware/auth.py).  A handler is a sequence of steps, one per         *)
(* database round trip it awaits; the steps of concurrent requests         *)
(* interleave.  Each request works on its own session: the User object it  *)
(* loaded is a private copy of the row.                                    *)
(***************************************************************************)
MaxRequests == 2       \* the requests of the user served at the same time
MaxMessages == 2       \* the messages received on one WebSocket connection
max_interactions == 6  \* the user's max_interactions (settings.max_interactions, scaled down)
SAMPLE_FILENAMES == 5  \* len(SAMPLE_FILENAMES)

RequestKinds == {"chat", "ws", "upload", "load_samples"}

sent_reply(type, content) == [type |-> type, content |-> content]

\* interaction_guard: the request is refused
interaction_guard(count, maximum) == count >= maximum

\* load_sample_documents: the request is refused for lack of budget
samples_refused(count, maximum) == maximum - count < SAMPLE_FILENAMES

\* the check that finds a document whatever its status
user_has_documents_any_status(documents) == documents # {}

\* _user_has_documents: a document with processing_status "completed"
user_has_documents(documents) == \E d \in documents : d[2] = "completed"

\* load_sample_documents: the user already has sample documents
samples_existing(documents) == \E d \in documents : d[1] = "sample"

\* the interactions a request of this kind costs
interaction_cost(kind) == IF kind = "load_samples" THEN SAMPLE_FILENAMES ELSE 1

\* chat: what the endpoint answers in each outcome
chat_replies(outcome) ==
  CASE outcome = "quota" -> <<sent_reply("403", "quota")>>
    [] outcome = "no documents" -> <<sent_reply("response", "NO_DOCUMENTS_MESSAGE")>>
    [] outcome = "success" -> <<sent_reply("response", "answer")>>
    [] OTHER -> <<sent_reply("response", "error")>>

\* chat_websocket not answering a message of a user whose quota is used up
websocket_replies_silent_quota(outcome, thinking) ==
  CASE outcome = "quota" -> <<>>
    [] outcome = "no documents" -> <<sent_reply("message", "NO_DOCUMENTS_MESSAGE")>>
    [] outcome = "success" ->
         [i \in 1..(3 + thinking) |-> sent_reply("thinking", "")]
           \o <<sent_reply("message", "answer")>>
    [] OTHER ->
         [i \in 1..thinking |-> sent_reply("thinking", "")] \o <<sent_reply("message", "error")>>

\* chat_websocket: what is sent for one message in each outcome; an agent run
\* that ends sends a thinking event per node (three nodes and the steps of its
\* plan), one that fails sends those of the nodes that completed
websocket_replies(outcome, thinking) ==
  CASE outcome = "quota" -> <<sent_reply("message", "quota")>>
    [] outcome = "no documents" -> <<sent_reply("message", "NO_DOCUMENTS_MESSAGE")>>
    [] outcome = "success" ->
         [i \in 1..(3 + thinking) |-> sent_reply("thinking", "")]
           \o <<sent_reply("message", "answer")>>
    [] OTHER ->
         [i \in 1..thinking |-> sent_reply("thinking", "")] \o <<sent_reply("message", "error")>>

\* upload_document and load_sample_documents: the status of the response
documents_replies(outcome) ==
  CASE outcome = "quota" -> <<sent_reply("403", "quota")>>
    [] outcome = "conflict" -> <<sent_reply("409", "")>>
    [] OTHER -> <<sent_reply("201", "")>>

handler_replies(kind, outcome, thinking) ==
  CASE kind = "chat" -> chat_replies(outcome)
    [] kind = "ws" -> websocket_replies(outcome, thinking)
    [] OTHER -> documents_replies(outcome)

\* a handler that has just been entered
new_request(kind) ==
  [ kind |-> kind,
    pc |-> IF kind = "ws" THEN "receive" ELSE "load_user",
    user |-> 0,            \* user.interaction_count of the User object loaded
    charged |-> FALSE,     \* the increment of this request has been committed
    graph |-> FALSE,       \* the agent graph was started for this request
    outcome |-> "",
    replies |-> <<>>,
    received |-> 0 ]       \* ws: the messages received so far

\* the handler has answered: an HTTP handler returns, the WebSocket loop
\* continues with the next receive
answered(request, outcome, thinking) ==
  [request EXCEPT !.outcome = outcome,
                  !.user = 0,
                  !.replies = handler_replies(request.kind, outcome, thinking),
                  !.pc = IF request.kind = "ws" THEN "receive" ELSE "done"]

InitRequests == InitBackend

\* the interactions used before: none, all but the cost of the samples, all but
\* one, all
EarlierCounts ==
  {0, max_interactions - SAMPLE_FILENAMES, max_interactions - 1, max_interactions}

\* the thinking events sent before an agent run fails or, beyond the three of
\* its nodes, before it ends
ThinkingSent == {0, 1}

\* what the user did before: interactions used, documents uploaded and processed
EarlierUse ==
  /\ requests = <<>> /\ admitted = 0 /\ user_documents = {}
  /\ \E n \in EarlierCounts, documents \in {{}, {<<"upload", "completed">>}} :
       /\ interaction_count' = n
       /\ admitted' = n
       /\ user_documents' = documents
  /\ requests' = requests
  /\ UNCHANGED exceptRequests

StartRequest ==
  /\ Len(requests) < MaxRequests
  /\ \E kind \in RequestKinds : requests' = Append(requests, new_request(kind))
  /\ UNCHANGED <<interaction_count, user_documents, admitted, exceptRequests>>

\* chat_websocket: receive_text, json.loads, message.get
Receive ==
  /\ \E r \in DOMAIN requests :
       /\ requests[r].pc = "receive"
       /\ requests[r].received < MaxMessages
       /\ \E data \in {"object", "not an object"} :
            requests' =
              [requests EXCEPT ![r] =
                 IF data = "object"
                 THEN [@ EXCEPT !.pc = "load_user", !.received = @ + 1,
                                !.charged = FALSE, !.graph = FALSE,
                                !.outcome = "", !.replies = <<>>]
                 ELSE [@ EXCEPT !.pc = "crashed"]]
  /\ UNCHANGED <<interaction_count, user_documents, admitted, exceptRequests>>

\* get_current_user with interaction_guard, or the select and the check of
\* chat_websocket: the row is read into the request's own User object
LoadUser ==
  /\ \E r \in DOMAIN requests :
       LET request == requests[r]
           loaded == [request EXCEPT !.user = interaction_count]
       IN /\ request.pc = "load_user"
          /\ IF request.kind = "load_samples"
             THEN /\ requests' = [requests EXCEPT ![r] = [loaded EXCEPT !.pc = "check_samples"]]
                  /\ admitted' = admitted
             ELSE IF interaction_guard(interaction_count, max_interactions)
             THEN /\ requests' = [requests EXCEPT ![r] = answered(loaded, "quota", 0)]
                  /\ admitted' = admitted
             ELSE /\ requests' = [requests EXCEPT ![r] = [loaded EXCEPT !.pc = "commit"]]
                  /\ admitted' = admitted + 1
  /\ UNCHANGED <<interaction_count, user_documents, exceptRequests>>

\* load_sample_documents: the select of the existing samples and the budget check
CheckSamples ==
  /\ \E r \in DOMAIN requests :
       LET request == requests[r]
       IN /\ request.pc = "check_samples"
          /\ IF samples_existing(user_documents)
             THEN /\ requests' = [requests EXCEPT ![r] = answered(request, "conflict", 0)]
                  /\ admitted' = admitted
             ELSE IF samples_refused(request.user, max_interactions)
             THEN /\ requests' = [requests EXCEPT ![r] = answered(request, "quota", 0)]
                  /\ admitted' = admitted
             ELSE /\ requests' = [requests EXCEPT ![r].pc = "commit"]
                  /\ admitted' = admitted + SAMPLE_FILENAMES
  /\ UNCHANGED <<interaction_count, user_documents, exceptRequests>>

\* user.interaction_count += n; await db.commit(): the value computed on the
\* request's own User object is written to the row, with the documents added
Commit ==
  /\ \E r \in DOMAIN requests :
       LET request == requests[r]
           committed == [request EXCEPT !.charged = TRUE, !.user = 0]
       IN /\ request.pc = "commit"
          /\ interaction_count' = request.user + interaction_cost(request.kind)
          /\ user_documents' =
               CASE request.kind = "upload" -> user_documents \cup {<<"upload", "pending">>}
                 [] request.kind = "load_samples" ->
                      user_documents \cup {<<"sample", "pending">>}
                 [] OTHER -> user_documents
          /\ requests' =
               [requests EXCEPT ![r] =
                  IF request.kind \in {"chat", "ws"}
                  THEN [committed EXCEPT !.pc = "check_documents"]
                  ELSE answered(committed, "created", 0)]
  /\ UNCHANGED <<admitted, exceptRequests>>

\* _user_has_documents and the no-documents reply
CheckDocuments ==
  /\ \E r \in DOMAIN requests :
       /\ requests[r].pc = "check_documents"
       /\ requests' =
            [requests EXCEPT ![r] =
               IF user_has_documents(user_documents)
               THEN [@ EXCEPT !.pc = "agent"]
               ELSE answered(@, "no documents", 0)]
  /\ UNCHANGED <<interaction_count, user_documents, admitted, exceptRequests>>

\* create_agent_graph and graph.invoke or graph.astream, inside try/except
Agent ==
  /\ \E r \in DOMAIN requests :
       /\ requests[r].pc = "agent"
       /\ \E outcome \in {"success", "exception"}, thinking \in ThinkingSent :
            requests' =
              [requests EXCEPT ![r] = answered([@ EXCEPT !.graph = TRUE], outcome, thinking)]
  /\ UNCHANGED <<interaction_count, user_documents, admitted, exceptRequests>>

\* process_document, the background task of a pending document, ends
ProcessDocument ==
  /\ \E d \in user_documents, status \in {"completed", "error"} :
       /\ d[2] = "pending"
       /\ user_documents' = (user_documents \ {d}) \cup {<<d[1], status>>}
  /\ UNCHANGED <<interaction_count, requests, admitted, exceptRequests>>

NextRequests ==
  \/ EarlierUse \/ StartRequest \/ Receive \/ LoadUser \/ CheckSamples \/ Commit
  \/ CheckDocuments \/ Agent \/ ProcessDocument

SpecRequests == InitRequests /\ [][NextRequests]_vars

\* C25: under any interleaving of concurrent requests of one user (chat,
\* WebSocket messages, upload, load-samples), the number of requests admitted
\* past the interaction check never exceeds the user's max_interactions, and
\* interaction_count equals the number of admitted interactions once their
\* increments are committed.
C25_QuotaHoldsUnderConcurrency ==
  /\ admitted <= max_interactions
  /\ (\A r \in DOMAIN requests : requests[r].pc # "commit") =>
       interaction_count = admitted

\* the replies of type "message" among those sent
MessageReplies(replies) == {i \in DOMAIN replies : replies[i].type = "message"}

\* C26: on an accepted WebSocket connection every received message that is a
\* JSON object gets exactly one reply of type "message", sent last, in each
\* of the four outcomes (quota exhausted, no processed documents, agent
\* success, agent exception); the loop is then back at the receive; and the
\* agent graph was started only in the last two outcomes.
C26_OneMessageReplyPerMessage ==
  \A r \in DOMAIN requests :
    LET request == requests[r]
    IN request.kind = "ws" =>
         /\ request.pc \in {"receive", "load_user", "commit", "check_documents",
                            "agent", "crashed"}
         /\ request.pc \in {"load_user", "commit", "check_documents", "agent"} =>
              /\ request.replies = <<>>
              /\ ~request.graph
         /\ (request.pc = "receive" /\ request.received > 0) =>
              /\ request.outcome \in {"quota", "no documents", "success", "exception"}
              /\ MessageReplies(request.replies) = {Len(request.replies)}
              /\ request.replies # <<>>
              /\ request.graph <=> request.outcome \in {"success", "exception"}

\* a connection has answered its last message, refused for the quota that the
\* message before it used up, while another has answered with the agent's error
C26_Witness ==
  \E r, q \in DOMAIN requests :
    /\ requests[r].kind = "ws" /\ requests[r].pc = "receive"
    /\ requests[r].received = MaxMessages
    /\ requests[r].outcome = "quota"
    /\ requests[q].kind = "ws" /\ requests[q].pc = "receive"
    /\ requests[q].outcome = "exception"

\* C27: the agent graph is never invoked for a user who has no document with
\* processing_status "completed": both chat endpoints answer with the fixed
\* no-documents message instead, and that request has consumed an interaction,
\* the increment being committed before the document check.
C27_NoGraphWithoutCompletedDocument ==
  \A r \in DOMAIN requests :
    LET request == requests[r]
        completed == \E d \in user_documents : d[2] = "completed"
    IN request.kind \in {"chat", "ws"} =>
         /\ (request.graph \/ request.pc = "agent") => completed
         /\ request.pc \in {"check_documents", "agent"} => request.charged
         /\ request.outcome = "no documents" =>
              /\ request.charged
              /\ ~request.graph
              /\ request.replies =
                   <<sent_reply(IF request.kind = "ws" THEN "message" ELSE "response",
                                "NO_DOCUMENTS_MESSAGE")>>
         /\ (~completed /\ request.charged /\ request.pc \in {"done", "receive"}) =>
              request.outcome = "no documents"

\* both endpoints have answered a user none of whose documents is completed
C27_Witness ==
  /\ \A d \in user_documents : d[2] # "completed"
  /\ \E r, q \in DOMAIN requests :
       /\ requests[r].kind = "chat" /\ requests[r].outcome = "no documents"
       /\ requests[q].kind = "ws" /\ requests[q].outcome = "no documents"

(***************************************************************************)
(* Document processing (backend/routers/documents.py, process_document).   *)
(* A document row is created "pending" by the upload handlers, which queue *)
(* one process_document task for it.  Each step of the task either returns *)
(* or raises; the database is reachable.                                   *)
(***************************************************************************)
MaxDocuments == 2   \* the documents uploaded

\* the steps of process_document between its first and its last commit, in order
ProcessingSteps ==
  <<"download", "extract_text", "extract", "chunk_document", "store_chunks">>

\* the steps inside the inner try block
PipelineSteps == {"extract_text", "extract", "chunk_document", "store_chunks"}

\* an exception handler that logs the failure and leaves the row as it is
status_unhandled(status) == status

\* except Exception: the status written by the handler
status_handled(status) == "error"

\* the step after a step that returned; "update_record" is step 5, the commit
\* of "completed"
next_step(step) ==
  LET i == CHOOSE k \in DOMAIN ProcessingSteps : ProcessingSteps[k] = step
  IN IF i = Len(ProcessingSteps) THEN "update_record" ELSE ProcessingSteps[i + 1]

\* upload_document, load_sample_documents: the row and the task queued for it
new_document ==
  [ processing_status |-> "pending",
    pc |-> "mark_processing",
    succeeded |-> {},           \* history: the steps that returned
    raised |-> "",              \* history: the step that raised
    history |-> <<"pending">> ] \* history: the statuses committed, in order

\* a commit of the row with a new status
committed(document, status, pc_after) ==
  [document EXCEPT !.processing_status = status,
                   !.history = Append(@, status),
                   !.pc = pc_after]

UploadDocument ==
  /\ Len(document_tasks) < MaxDocuments
  /\ document_tasks' = Append(document_tasks, new_document)
  /\ UNCHANGED exceptProcessing

\* process_document: doc.processing_status = "processing"; commit
MarkProcessing ==
  /\ \E d \in DOMAIN document_tasks :
       /\ document_tasks[d].pc = "mark_processing"
       /\ document_tasks' =
            [document_tasks EXCEPT ![d] = committed(@, "processing", ProcessingSteps[1])]
  /\ UNCHANGED exceptProcessing

\* process_document: the download and steps 1 to 4, each returning or raising
ProcessingStep ==
  /\ \E d \in DOMAIN document_tasks, returns \in BOOLEAN :
       LET document == document_tasks[d]
       IN /\ \E k \in DOMAIN ProcessingSteps : ProcessingSteps[k] = document.pc
          /\ document_tasks' =
               [document_tasks EXCEPT ![d] =
                  IF returns
                  THEN [document EXCEPT !.succeeded = @ \cup {document.pc},
                                        !.pc = next_step(document.pc)]
                  ELSE [document EXCEPT !.raised = document.pc, !.pc = "except"]]
  /\ UNCHANGED exceptProcessing

\* process_document, step 5: doc.processing_status = "completed"; commit; then
\* the finally clause and the return
MarkCompleted ==
  /\ \E d \in DOMAIN document_tasks :
       /\ document_tasks[d].pc = "update_record"
       /\ document_tasks' =
            [document_tasks EXCEPT ![d] = committed(@, "completed", "returned")]
  /\ UNCHANGED exceptProcessing

\* process_document, except Exception: the row is found; status; commit; return
MarkError ==
  /\ \E d \in DOMAIN document_tasks :
       /\ document_tasks[d].pc = "except"
       /\ document_tasks' =
            [document_tasks EXCEPT ![d] =
               committed(@, status_handled(@.processing_status), "returned")]
  /\ UNCHANGED exceptProcessing

NextProcessing ==
  UploadDocument \/ MarkProcessing \/ ProcessingStep \/ MarkCompleted \/ MarkError

SpecProcessing == InitBackend /\ [][NextProcessing]_vars

MaxSegments == 2    \* the runs of equal characters in a text

chunk_size == 750   \* DocumentChunker.chunk_size
overlap == 100      \* DocumentChunker.overlap
window_size == 150  \* _find_break_point: how far back from the target it looks

Characters == {"a", " ", "\n", "."}

\* the lengths of the runs: short ones, the distance from the start of a chunk
\* to the search window, one more, and a whole chunk
SegmentLengths ==
  {1, 2, chunk_size - window_size, chunk_size - window_size + 1, chunk_size}

Segments == [char : Characters, n : SegmentLengths]

\* the texts chunked; adjacent runs are of different characters
Texts ==
  {t \in UNION {[1..k -> Segments] : k \in 0..MaxSegments} :
     \A i \in 1..(Len(t) - 1) : t[i].char # t[i + 1].char}

RECURSIVE text_len(_)
text_len(text) == IF text = <<>> THEN 0 ELSE text[1].n + text_len(Tail(text))

max2(a, b) == IF a >= b THEN a ELSE b
min2(a, b) == IF a <= b THEN a ELSE b

\* the position of the first character of the k-th run
RECURSIVE segment_start(_, _)
segment_start(text, k) ==
  IF k = 1 THEN 0 ELSE segment_start(text, k - 1) + text[k - 1].n

\* the k-th run holds a character of text[lo:hi] that is no whitespace
inked(text, k, lo, hi) ==
  /\ text[k].char \notin Whitespace
  /\ max2(lo, segment_start(text, k)) < min2(hi, segment_start(text, k) + text[k].n)

\* the first character of text[lo:hi] that is no whitespace, looked for from
\* the k-th run on; -1 when there is none
RECURSIVE first_inked(_, _, _, _)
first_inked(text, k, lo, hi) ==
  IF k > Len(text) THEN -1
  ELSE IF inked(text, k, lo, hi) THEN max2(lo, segment_start(text, k))
  ELSE first_inked(text, k + 1, lo, hi)

\* the last character of text[lo:hi] that is no whitespace, looked for from
\* the k-th run back; -1 when there is none
RECURSIVE last_inked(_, _, _, _)
last_inked(text, k, lo, hi) ==
  IF k = 0 THEN -1
  ELSE IF inked(text, k, lo, hi)
  THEN min2(hi, segment_start(text, k) + text[k].n) - 1
  ELSE last_inked(text, k - 1, lo, hi)

\* text[lo:hi].strip(), as the positions of its first and last character;
\* <<>> when it is empty
stripped(text, lo, hi) ==
  IF first_inked(text, 1, lo, hi) = -1 THEN <<>>
  ELSE <<first_inked(text, 1, lo, hi), last_inked(text, Len(text), lo, hi)>>

\* the last position of text[lo:hi] within the k-th run where the pattern is
\* found, -1 when there is none: a space is found anywhere in a run of spaces,
\* two newlines anywhere in a run of newlines but at its last character, and
\* a period followed by whitespace at the last character of a run of periods
\* that whitespace follows
last_in_segment(text, pattern, k, lo, hi) ==
  LET first == segment_start(text, k)
      last == first + text[k].n - 1
      found == CASE pattern = " " ->
                      IF text[k].char = " " THEN min2(last, hi - 1) ELSE -1
                 [] pattern = "\n\n" ->
                      IF text[k].char = "\n" THEN min2(last - 1, hi - 2) ELSE -1
                 [] OTHER ->
                      IF /\ text[k].char = "."
                         /\ k < Len(text)
                         /\ text[k + 1].char \in Whitespace
                         /\ last <= hi - 2
                      THEN last ELSE -1
  IN IF found >= max2(lo, first) THEN found ELSE -1

\* the last position of text[lo:hi] where the pattern is found, looked for
\* from the k-th run back; -1 when there is none
RECURSIVE last_match_from(_, _, _, _, _)
last_match_from(text, pattern, k, lo, hi) ==
  IF k = 0 THEN -1
  ELSE IF last_in_segment(text, pattern, k, lo, hi) # -1
  THEN last_in_segment(text, pattern, k, lo, hi)
  ELSE last_match_from(text, pattern, k - 1, lo, hi)

\* text[lo:hi].rfind(pattern), or the start of the last match of the regular
\* expression, as a position of the text; -1 when there is none
last_match(text, pattern, lo, hi) == last_match_from(text, pattern, Len(text), lo, hi)

\* _find_break_point
find_break_point(text, target) ==
  LET window_start == max2(0, target - window_size)
      \* window.rfind("\n\n"), as a position of the text
      para_idx == last_match(text, "\n\n", window_start, target)
      \* the last match of [.!?]\s in the window
      sentence_match == last_match(text, "[.!?]\\s", window_start, target)
      \* window.rfind(" ")
      space_idx == last_match(text, " ", window_start, target)
  IN IF para_idx # -1 THEN para_idx + 2
     ELSE IF sentence_match # -1 THEN sentence_match + 2
     ELSE IF space_idx # -1 THEN space_idx + 1
     ELSE target

\* the end of the chunk that starts at start
chunk_end(text, start) ==
  LET end == start + chunk_size
  IN IF end < text_len(text) THEN find_break_point(text, end) ELSE end

\* a loop that appends the chunk whatever its text
chunk_kept_always(chunk_text) == TRUE

\* if chunk_text: the chunk is appended
chunk_kept(chunk_text) == chunk_text # <<>>

\* Advance with overlap
next_start_of(start, end) ==
  LET next_start == end - overlap
  IN IF next_start <= start THEN end ELSE next_start

\* chunk_document is called: the early return for a text of whitespace, or
\* the locals before the loop
CallChunker ==
  /\ chunker.pc = "idle"
  /\ \E text \in Texts :
       chunker' =
         [NoCall EXCEPT !.text = text,
                        !.pc = IF stripped(text, 0, text_len(text)) = <<>>
                               THEN "returned" ELSE "loop",
                        !.starts = <<0>>]
  /\ UNCHANGED exceptChunker

\* one iteration of the while loop
ChunkerIteration ==
  /\ chunker.pc = "loop"
  /\ chunker.start < text_len(chunker.text)
  /\ LET end == chunk_end(chunker.text, chunker.start)
         chunk_text == stripped(chunker.text, chunker.start, end)
         kept == chunk_kept(chunk_text)
         next_start == next_start_of(chunker.start, end)
     IN chunker' =
          [chunker EXCEPT
             !.chunks = IF kept
                        THEN Append(@, [text |-> chunk_text,
                                        chunk_index |-> chunker.chunk_index])
                        ELSE @,
             !.chunk_index = IF kept THEN @ + 1 ELSE @,
             !.start = next_start,
             !.starts = Append(@, next_start)]
  /\ UNCHANGED exceptChunker

\* the loop ends and the chunks are returned
ChunkerReturn ==
  /\ chunker.pc = "loop"
  /\ ~(chunker.start < text_len(chunker.text))
  /\ chunker' = [chunker EXCEPT !.pc = "returned"]
  /\ UNCHANGED exceptChunker

NextChunker == CallChunker \/ ChunkerIteration \/ ChunkerReturn

\* the loop runs in the thread of its caller: a call that can take a step takes it
SpecChunker ==
  InitBackend /\ [][NextChunker]_vars /\ WF_vars(ChunkerIteration \/ ChunkerReturn)

C29_LoopProgress ==
  /\ \A i \in 1..(Len(chunker.starts) - 1) : chunker.starts[i] < chunker.starts[i + 1]
  /\ \A i \in DOMAIN chunker.chunks :
       /\ chunker.chunks[i].chunk_index = i - 1
       /\ chunker.chunks[i].text # <<>>
  /\ chunker.chunk_index = Len(chunker.chunks)

\* C29: chunk_document terminates for every input with chunk_size 750 and
\* overlap 100: start strictly increases with each iteration of the loop, the
\* chunks carry the consecutive chunk_index 0, 1, 2, ... , none of them is
\* empty, and every call returns.
C29_ChunkerTerminates ==
  /\ []C29_LoopProgress
  /\ (chunker.pc = "loop") ~> (chunker.pc = "returned")

\* a call has returned after a chunk of whitespace was skipped and a break
\* point was found before the target
C29_Witness ==
  /\ chunker.pc = "returned"
  /\ Len(chunker.chunks) > 1
  /\ Len(chunker.starts) > Len(chunker.chunks) + 1
  /\ \E i \in 2..Len(chunker.starts) :
       chunker.starts[i] - chunker.starts[i - 1] < chunk_size - overlap

(***************************************************************************)
(* Accounts (backend/routers/auth.py): signup, login and verify_email.     *)
(* A handler is a sequence of steps, one per database round trip; the      *)
(* steps of concurrent requests interleave.  A verification token is the   *)
(* value of secrets.token_urlsafe(32), different at every signup: the      *)
(* model numbers them, 0 standing for None.                                *)
(***************************************************************************)
MaxAuthRequests == 3   \* the requests made to the three endpoints

Emails == {"a@example.com", "b@example.com"}
Passwords == {"password", "other"}

\* the tokens a verification link may carry: those of the signups and one
\* that was never issued
Tokens == 1..(MaxAuthRequests + 1)

\* signup: the row added; the password hash is modelled by the password
new_user(email, password, token) ==
  [ email |-> email,
    password_hash |-> password,
    is_verified |-> FALSE,
    verification_token |-> token,
    issued |-> token,       \* history: the token of the verification link sent
    verified_with |-> 0 ]   \* history: the token of the request that verified the row

\* a verify_email that leaves the token in place
verified_keeping_token(user, token) ==
  [user EXCEPT !.is_verified = TRUE, !.verified_with = token]

\* verify_email: the update of the row
verified(user, token) ==
  [user EXCEPT !.is_verified = TRUE, !.verification_token = 0, !.verified_with = token]

\* select(User).where(User.email == email): the rows found
users_by_email(rows, email) == {u \in DOMAIN rows : rows[u].email = email}

\* select(User).where(User.verification_token == token): the rows found
users_by_token(rows, token) == {u \in DOMAIN rows : rows[u].verification_token = token}

\* login: the response, for the rows found by the email
login_response(rows, found, password) ==
  IF Cardinality(found) > 1 THEN "500"   \* scalar_one_or_none raises
  ELSE IF found = {} THEN "401"
  ELSE LET user == rows[CHOOSE u \in found : TRUE]
       IN IF user.password_hash # password THEN "401"
          ELSE IF ~user.is_verified THEN "403"
          ELSE "200"

new_auth_request(kind, email, password, token) ==
  [ kind |-> kind, pc |-> "select", email |-> email, password |-> password,
    token |-> token,
    user |-> 0,             \* the row the request loaded
    response |-> "",
    late |-> FALSE ]        \* history: the token had verified a row before the select

StartAuthRequest ==
  /\ Len(auth_requests) < MaxAuthRequests
  /\ \/ \E email \in Emails :
          auth_requests' =
            Append(auth_requests, new_auth_request("signup", email, "password", 0))
     \/ \E email \in Emails, password \in Passwords :
          auth_requests' =
            Append(auth_requests, new_auth_request("login", email, password, 0))
     \/ \E token \in Tokens :
          auth_requests' =
            Append(auth_requests, new_auth_request("verify_email", "", "", token))
  /\ UNCHANGED <<users, exceptAuth>>

\* signup: the select by email and the 409
SignupSelect ==
  /\ \E r \in DOMAIN auth_requests :
       /\ auth_requests[r].kind = "signup" /\ auth_requests[r].pc = "select"
       /\ auth_requests' =
            [auth_requests EXCEPT ![r] =
               IF users_by_email(users, @.email) # {}
               THEN [@ EXCEPT !.response = "409", !.pc = "done"]
               ELSE [@ EXCEPT !.pc = "commit"]]
  /\ UNCHANGED <<users, exceptAuth>>

\* signup: db.add(user); commit.  When a concurrent signup has added the
\* email meanwhile, the commit fails if the table has a unique constraint on
\* the email and adds a second row if it has none.
SignupCommit ==
  /\ \E r \in DOMAIN auth_requests, unique \in BOOLEAN :
       LET request == auth_requests[r]
       IN /\ request.kind = "signup" /\ request.pc = "commit"
          /\ IF unique /\ users_by_email(users, request.email) # {}
             THEN /\ users' = users
                  /\ auth_requests' =
                       [auth_requests EXCEPT ![r] = [@ EXCEPT !.response = "500", !.pc = "done"]]
             ELSE /\ users' = Append(users, new_user(request.email, request.password,
                                                      Len(users) + 1))
                  /\ auth_requests' =
                       [auth_requests EXCEPT ![r] = [@ EXCEPT !.response = "201", !.pc = "done"]]
  /\ UNCHANGED exceptAuth

\* login: the select, the checks and the response
Login ==
  /\ \E r \in DOMAIN auth_requests :
       /\ auth_requests[r].kind = "login" /\ auth_requests[r].pc = "select"
       /\ LET request == auth_requests[r]
              found == users_by_email(users, request.email)
          IN auth_requests' =
               [auth_requests EXCEPT ![r] =
                  [@ EXCEPT !.response = login_response(users, found, request.password),
                            !.pc = "done"]]
  /\ UNCHANGED <<users, exceptAuth>>

\* verify_email: the select by token and the 400
VerifySelect ==
  /\ \E r \in DOMAIN auth_requests :
       LET request == auth_requests[r]
           found == users_by_token(users, request.token)
           late == \E u \in DOMAIN users : users[u].verified_with = request.token
       IN /\ request.kind = "verify_email" /\ request.pc = "select"
          /\ auth_requests' =
               [auth_requests EXCEPT ![r] =
                  IF found = {}
                  THEN [@ EXCEPT !.response = "400", !.pc = "done", !.late = late]
                  ELSE [@ EXCEPT !.user = CHOOSE u \in found : TRUE, !.pc = "commit",
                                 !.late = late]]
  /\ UNCHANGED <<users, exceptAuth>>

\* verify_email: is_verified = True; verification_token = None; commit
VerifyCommit ==
  /\ \E r \in DOMAIN auth_requests :
       LET request == auth_requests[r]
       IN /\ request.kind = "verify_email" /\ request.pc = "commit"
          /\ users' = [users EXCEPT ![request.user] = verified(@, request.token)]
          /\ auth_requests' =
               [auth_requests EXCEPT ![r] = [@ EXCEPT !.response = "200", !.pc = "done"]]
  /\ UNCHANGED exceptAuth

NextAuth ==
  StartAuthRequest \/ SignupSelect \/ SignupCommit \/ Login \/ VerifySelect \/ VerifyCommit

SpecAuth == InitBackend /\ [][NextAuth]_vars

C30_Accounts ==
  /\ \A u \in DOMAIN users :
       /\ users[u].is_verified =>
            /\ users[u].verified_with = users[u].issued
            /\ users[u].verification_token = 0
       /\ ~users[u].is_verified =>
            /\ users[u].verification_token = users[u].issued
            /\ users[u].verified_with = 0
       /\ users[u].issued # 0
  /\ \A r \in DOMAIN auth_requests :
       LET request == auth_requests[r]
       IN /\ (request.kind = "login" /\ request.response = "200") =>
               \E u \in DOMAIN users :
                 users[u].email = request.email /\ users[u].is_verified
          /\ (request.kind = "verify_email" /\ request.late /\ request.pc = "done") =>
               request.response = "400"

\* a row is added unverified, a verified row stays verified, and a login for
\* a row that is not verified is answered 403 when its password is right
C30_Steps ==
  /\ Len(users') > Len(users) => ~users'[Len(users')].is_verified
  /\ \A u \in DOMAIN users : users[u].is_verified => users'[u].is_verified
  /\ \A r \in DOMAIN auth_requests :
       LET request == auth_requests[r]
           found == users_by_email(users, request.email)
       IN (/\ request.kind = "login" /\ request.pc = "select"
           /\ auth_requests'[r].pc = "done"
           /\ Cardinality(found) = 1
           /\ \A u \in found : ~users[u].is_verified /\ users[u].password_hash = request.password)
          => auth_requests'[r].response = "403"

\* C30: account verification is a one-way, single-use transition: a user is
\* created unverified; login is refused (403) for as long as is_verified is
\* false; is_verified becomes true only through verify_email with that
\* user's token and never becomes false again; and after a successful
\* verification the token is cleared, so that a later request with the same
\* token is rejected (400).
C30_VerificationOneWaySingleUse == []C30_Accounts /\ [][C30_Steps]_vars

\* a user has signed up and was verified with the token issued, and a later
\* request with the same token was rejected
C30_Witness ==
  \E r, q \in DOMAIN auth_requests, u \in DOMAIN users :
    /\ users[u].is_verified
    /\ auth_requests[r].kind = "verify_email" /\ auth_requests[r].response = "200"
    /\ auth_requests[r].token = users[u].issued
    /\ auth_requests[q].kind = "verify_email" /\ auth_requests[q].late
    /\ auth_requests[q].token = users[u].issued
    /\ auth_requests[q].response = "400"

====
